---- MODULE Spec2Model ----
(***************************************************************************)
(* Model of src/auth_url.c (Icecast URL based listener authentication).    *)
(*                                                                         *)
(* One authenticator (auth_t with its auth_url state and its single curl   *)
(* handle) is shared by a pool of workers.  Each worker runs one event     *)
(* flow at a time: auth_addurl_client, auth_removeurl_client,              *)
(* url_stream_start or url_stream_end.  Every statement of a flow that     *)
(* touches shared memory (auth->refcount, the options of the curl handle,  *)
(* client->authenticated, client->auth) is a step of its own, so that the  *)
(* flows interleave as threads do.  Statements that touch only the flow's  *)
(* own variables are joined to the step before or after them.             *)
(***************************************************************************)
EXTENDS Integers, Sequences, FiniteSets, TLC

\* ------------------------------------------------------------------ bounds
NumClients == 2
MaxEvents == 2
\* times in seconds run from 0 to MaxTime
MaxTime == 2
\* width of unsigned long in bits, scaled down
LongBits == 16

\* the worker pool: two threads, the least that lets two flows interleave
Workers == {1, 2}
Clients == 1..NumClients

\* ------------------------------------------------------------- constants
NULL == "NULL"
NoClient == 0
AUTH_OK == "AUTH_OK"
AUTH_FAILED == "AUTH_FAILED"
NoResult == "none"
CURLE_OK == 0
CURLE_FAIL == 7

\* Strings that are compared character by character are sequences of
\* one-character strings.
DefaultHeader == <<"i","c","e","c","a","s","t","-","a","u","t","h","-","u","s","e","r",":"," ","1","\r","\n">>
CustomHeader == <<"X","-","O","k",":"," ","y">>

\* Header lines the remote server may send back: the default verdict line in
\* another letter case, and a line that begins as the custom header does.
ResponseLines ==
    { <<"I","c","e","c","a","s","t","-","A","u","t","h","-","U","s","e","r",":"," ","1","\r","\n">>,
      <<"x","-","o","K",":"," ","y","e","s","\r","\n">> }

\* Option names auth_get_url_auth recognises and that the flows read.
UrlOptions == {"add", "remove", "start", "end"}
OptionNames == UrlOptions \cup {"header"}

\* The option lists registration is run with: the set of names present.
OptionLists ==
    { {}, UrlOptions, {"add", "header"}, {"remove", "start"} }

VARIABLES
    reg,            \* "none" | "ok" | "failed": auth_get_url_auth not yet run / ran
    url,            \* the auth_url state: addurl, removeurl, stream_start, stream_end, auth_header(_len)
    handle,         \* options last set on url->handle: CURLOPT_URL, _POSTFIELDS, _WRITEHEADER
    refcount,       \* auth->refcount
    freed,          \* auth_url_clear has run (auth->free called by auth_release)
    ownerRef,       \* the mountpoint configuration still holds its reference
    cfgHeld,        \* cfgHeld[w]: config snapshots (read locks) worker w holds
    client,         \* client[c]: st, auth (back-reference non-null), authenticated
    pc,             \* pc[w]: position of worker w in its flow
    ev,             \* ev[w]: the auth_client the worker processes: kind, client
    tmp,            \* tmp[w]: value of refcount loaded by a refcount++ in progress
    inflight,       \* inflight[w]: the request curl_easy_perform of w sent
    res,            \* res[w]: return value of curl_easy_perform
    result,         \* result[w]: auth_result the flow returned
    hist,           \* hist[w]: what the flow has done so far (observation only)
    nevents,        \* events dispatched so far
    crashed,        \* the process died on an invalid memory access
    mem,            \* the authenticator and the heap blocks of its auth_url state
    options,        \* the option list auth_get_url_auth was called with
    io              \* the last call of a function checked on its own: arguments, result

vars == <<reg, url, handle, refcount, freed, ownerRef, cfgHeld, client, pc, ev,
          tmp, inflight, res, result, hist, nevents, crashed, mem, options, io>>

NoUrl == [addurl |-> NULL, removeurl |-> NULL, stream_start |-> NULL,
          stream_end |-> NULL, auth_header |-> <<>>, auth_header_len |-> 0]
NoPost == [action |-> "none", client |-> NoClient]
NoCtx == [ev |-> 0, client |-> NoClient]
NoHandle == [url |-> NULL, post |-> NoPost, hdr |-> NoCtx]
NoEvent == [kind |-> "none", client |-> NoClient]
\* mem: the auth_t the caller handed to auth_get_url_auth and what hangs on it
\*   authenticator  "live" | "freed": the auth_t itself
\*   hooks          the function pointers of lines 328-335 are installed
\*   state          authenticator->state points to the auth_url
\*   blocks         heap blocks allocated by auth_get_url_auth and not freed:
\*                  "url_info", "auth_header", "handle", and the name of each
\*                  option whose value was strdup'ed
NoMem == [authenticator |-> "live", hooks |-> FALSE, state |-> FALSE, blocks |-> {}]
NoIo == [op |-> "none", in |-> <<>>, before |-> <<>>, out |-> <<>>]
\* hist[w] observes the flow of worker w; no step of a flow reads it.
\*   rc0    refcount when the flow began      alone  no other worker and no owner
\*   acq    config snapshots acquired                release acted since it began
\*   posts  curl_easy_perform calls started   pins   refcount++ done by the flow
\*   unpins auth_release calls                pp     auth_postprocess_client calls
\*   ppres  what auth_postprocess_client returned
\*   match  add flow: a header line of the response to its request matched
\*          auth_header
NoHist == [rc0 |-> 0, alone |-> FALSE, acq |-> 0, posts |-> 0, pins |-> 0,
           unpins |-> 0, pp |-> 0, ppres |-> 0, match |-> FALSE]

Init ==
    /\ reg = "none"
    /\ url = NoUrl
    /\ handle = NoHandle
    /\ refcount = 1
    /\ freed = FALSE
    /\ ownerRef = TRUE
    /\ cfgHeld = [w \in Workers |-> 0]
    /\ client = [c \in Clients |-> [st |-> "new", auth |-> FALSE, authenticated |-> FALSE]]
    /\ pc = [w \in Workers |-> "idle"]
    /\ ev = [w \in Workers |-> NoEvent]
    /\ tmp = [w \in Workers |-> 0]
    /\ inflight = [w \in Workers |-> NoHandle]
    /\ res = [w \in Workers |-> CURLE_OK]
    /\ result = [w \in Workers |-> NoResult]
    /\ hist = [w \in Workers |-> NoHist]
    /\ nevents = 0
    /\ crashed = FALSE
    /\ mem = NoMem
    /\ options = {}
    /\ io = NoIo

\* ------------------------------------------------------------ pure helpers
UpperCase == <<"A","B","C","D","E","F","G","H","I","J","K","L","M","N","O","P","Q","R","S","T","U","V","W","X","Y","Z">>
LowerCase == <<"a","b","c","d","e","f","g","h","i","j","k","l","m","n","o","p","q","r","s","t","u","v","w","x","y","z">>

\* tolower(3)
ToLower(ch) ==
    IF \E i \in 1..Len(UpperCase) : UpperCase[i] = ch
    THEN LowerCase[CHOOSE i \in 1..Len(UpperCase) : UpperCase[i] = ch]
    ELSE ch

\* the byte at position i of a C string: the terminating NUL past its end
CharAt(s, i) == IF i <= Len(s) THEN s[i] ELSE "NUL"

RECURSIVE StrNCaseCmpFrom(_, _, _, _)
StrNCaseCmpFrom(a, b, i, n) ==
    IF i > n THEN TRUE
    ELSE IF ToLower(CharAt(a, i)) # ToLower(CharAt(b, i)) THEN FALSE
    ELSE IF CharAt(a, i) = "NUL" THEN TRUE
    ELSE StrNCaseCmpFrom(a, b, i + 1, n)

\* strncasecmp (a, b, n) == 0
StrNCaseCmpEq(a, b, n) == StrNCaseCmpFrom(a, b, 1, n)

\* line 105: the test of handle_returned_header
HeaderMatches(line) == StrNCaseCmpEq(line, url.auth_header, url.auth_header_len)

\* handle_returned_header comparing with strncmp
MutHeaderCaseSensitive(line, ctx) ==
    IF /\ ctx.client # NoClient
       /\ Len(line) >= url.auth_header_len
       /\ SubSeq(line, 1, url.auth_header_len) = url.auth_header
    THEN [client EXCEPT ![ctx.client].authenticated = TRUE]
    ELSE client

\* handle_returned_header (ptr = line, stream = ctx): the clients afterwards
handle_returned_header(line, ctx) ==
    IF ctx.client # NoClient /\ HeaderMatches(line)
    THEN [client EXCEPT ![ctx.client].authenticated = TRUE]
    ELSE client

\* the URL option of a stream flow: url->stream_start or url->stream_end
StreamUrl(kind) == IF kind = "start" THEN url.stream_start ELSE url.stream_end

\* auth_release (auth.c): refcount--, and at zero auth->free, which is
\* auth_url_clear (lines 83-92)
auth_release_refcount == refcount - 1
auth_release_clears == freed \/ auth_release_refcount = 0

\* lines 83-92: auth_url_clear: the blocks left once it has run
auth_url_clear == mem.blocks \ {"handle", "username", "password", "remove", "add", "url_info"}
auth_release_mem ==
    IF ~freed /\ auth_release_refcount = 0
    THEN [mem EXCEPT !.blocks = auth_url_clear]
    ELSE mem

\* results auth_postprocess_client (auth.c) may return
PostprocessResults == {-1, 0}

\* results curl_easy_perform may return
PerformResults == {CURLE_OK, CURLE_FAIL}

\* the value the option list gives for an URL option
OptionValue(name) ==
    CASE name = "add" -> "http://auth/add"
      [] name = "remove" -> "http://auth/remove"
      [] name = "start" -> "http://auth/start"
      [] OTHER -> "http://auth/end"

\* ------------------------------------------------------- flow bookkeeping
Free(w) == pc[w] = "idle"
Posting(w) == pc[w] \in {"a_posting", "r_posting", "s_posting"}
Done(w) == pc[w] = "done"
OthersFree(w) == \A v \in Workers \ {w} : Free(v)
LowestFree(w) == Free(w) /\ \A v \in Workers : v < w => ~Free(v)
LowestNew(c) == client[c].st = "new" /\ \A d \in Clients : d < c => client[d].st # "new"

\* A returned flow is taken off its worker before anything else happens: the
\* caller's bookkeeping touches nothing a running flow reads.
Settled == \A v \in Workers : ~Done(v)
Running == ~crashed /\ Settled

Goto(w, label) == pc' = [pc EXCEPT ![w] = label]

\* worker w begins a flow: the flows already running are no longer alone
Begin(w, rc, nacq) ==
    hist' = [v \in Workers |->
               IF v = w THEN [NoHist EXCEPT !.rc0 = rc, !.alone = OthersFree(w), !.acq = nacq]
               ELSE [hist[v] EXCEPT !.alone = FALSE]]

\* config_get_config / config_release_config by worker w
ConfigGet(w) == cfgHeld' = [cfgHeld EXCEPT ![w] = cfgHeld[w] + 1]
ConfigRelease(w) == cfgHeld' = [cfgHeld EXCEPT ![w] = cfgHeld[w] - 1]

\* curl_easy_setopt (url->handle, CURLOPT_URL / _POSTFIELDS / _WRITEHEADER, v)
SetOptUrl(v) == handle' = [handle EXCEPT !.url = v]
SetOptPostfields(v) == handle' = [handle EXCEPT !.post = v]
SetOptWriteheader(v) == handle' = [handle EXCEPT !.hdr = v]

\* curl_easy_perform starts: the request goes out with the options the
\* handle holds at that moment
PerformStart(w, posting) ==
    /\ inflight' = [inflight EXCEPT ![w] = handle]
    /\ Goto(w, posting)
    /\ hist' = [hist EXCEPT ![w].posts = hist[w].posts + 1]

\* curl_easy_perform returns r
PerformReturn(w, r) ==
    /\ res' = [res EXCEPT ![w] = r]
    /\ inflight' = [inflight EXCEPT ![w] = NoHandle]

\* the auth_user the flow of worker w passes as CURLOPT_WRITEHEADER
AuthUser(w) == [ev |-> w, client |-> ev[w].client]

\* the flow of worker w returns r
Return(w, r) ==
    /\ result' = [result EXCEPT ![w] = r]
    /\ Goto(w, "done")

\* ------------------------------------------------------------ registration
\* auth_get_url_auth: opts is the set of option names present in the list.
\* Lines 337-359 allocate url_info, the default auth_header and a copy of
\* every recognised option value; a header option frees the default
\* auth_header and puts its own copy in its place.
Allocated(opts) == {"url_info", "auth_header"} \cup (opts \ {"header"})

\* lines 361-366: curl_easy_init returned NULL
RegistrationFails(opts) ==
    [authenticator |-> "freed", hooks |-> TRUE, state |-> FALSE,
     blocks |-> Allocated(opts) \ {"url_info"}]

auth_get_url_auth(opts, handleOk) ==
    /\ Running
    /\ reg = "none"
    /\ options' = opts
    /\ IF handleOk
       THEN /\ reg' = "ok"
            /\ url' = [addurl |-> IF "add" \in opts THEN OptionValue("add") ELSE NULL,
                       removeurl |-> IF "remove" \in opts THEN OptionValue("remove") ELSE NULL,
                       stream_start |-> IF "start" \in opts THEN OptionValue("start") ELSE NULL,
                       stream_end |-> IF "end" \in opts THEN OptionValue("end") ELSE NULL,
                       auth_header |-> IF "header" \in opts THEN CustomHeader ELSE DefaultHeader,
                       auth_header_len |-> IF "header" \in opts THEN Len(CustomHeader)
                                           ELSE Len(DefaultHeader)]
            /\ mem' = [authenticator |-> "live", hooks |-> TRUE, state |-> TRUE,
                       blocks |-> Allocated(opts) \cup {"handle"}]
       ELSE /\ reg' = "failed"
            /\ url' = url
            /\ mem' = RegistrationFails(opts)
    /\ UNCHANGED <<handle, refcount, freed, ownerRef, cfgHeld, client, pc, ev,
                   tmp, inflight, res, result, hist, nevents, crashed, io>>

\* ------------------------------------------------------------- environment
\* The mountpoint configuration drops its reference to the authenticator.
\* The configuration is changed under the write lock: no snapshot is held.
ConfigChange ==
    /\ Running /\ reg = "ok"
    /\ ownerRef
    /\ \A w \in Workers : cfgHeld[w] = 0
    /\ ownerRef' = FALSE
    /\ refcount' = auth_release_refcount
    /\ freed' = auth_release_clears
    /\ mem' = auth_release_mem
    /\ hist' = [v \in Workers |-> [hist[v] EXCEPT !.alone = FALSE]]
    /\ UNCHANGED <<reg, url, handle, cfgHeld, client, pc, ev, tmp, inflight, res,
                   result, nevents, crashed, options, io>>

\* The caller takes the result of a returned flow; the worker is free again.
\* Once no flow is running, the options left on the handle are dead: every
\* flow sets all three before its curl_easy_perform reads them.
Collect(w) ==
    /\ ~crashed
    /\ Done(w)
    /\ Goto(w, "idle")
    /\ handle' = IF OthersFree(w) THEN NoHandle ELSE handle
    /\ ev' = [ev EXCEPT ![w] = NoEvent]
    /\ hist' = [hist EXCEPT ![w] = NoHist]
    /\ res' = [res EXCEPT ![w] = CURLE_OK]
    /\ result' = [result EXCEPT ![w] = NoResult]
    /\ UNCHANGED <<reg, url, refcount, freed, ownerRef, cfgHeld, client,
                   tmp, inflight, nevents, crashed, mem, options, io>>

\* The response to the request of worker w carries a header line: curl calls
\* handle_returned_header with the CURLOPT_WRITEHEADER pointer.  The handle is
\* shared and unsynchronised: the pointer is the one the request went out
\* with or the one another worker has set on the handle since.
HeaderLine(w, line, ctx) ==
    /\ Running
    /\ Posting(w)
    /\ ctx \in {inflight[w].hdr, handle.hdr}
    /\ ctx.client # NoClient => client[ctx.client].auth
    /\ client' = handle_returned_header(line, ctx)
    /\ hist' = [hist EXCEPT ![w].match =
                   hist[w].match \/ (ev[w].kind = "add" /\ HeaderMatches(line))]
    /\ UNCHANGED <<reg, url, handle, refcount, freed, ownerRef, cfgHeld, pc, ev,
                   tmp, inflight, res, result, nevents, crashed, mem, options, io>>

\* An access to memory that is no longer valid may end the process: a flow
\* that works on the authenticator after auth_url_clear, or the header
\* callback reaching a client whose client->auth is already NULL.
InvalidAccess(w) ==
    \/ freed /\ ~Free(w)
    \/ /\ Posting(w)
       /\ \E ctx \in {inflight[w].hdr, handle.hdr} :
             ctx.client # NoClient /\ ~client[ctx.client].auth

\* the process is gone: nothing of its state remains
Crash(w) ==
    /\ Running
    /\ InvalidAccess(w)
    /\ crashed' = TRUE
    /\ reg' = "none" /\ url' = NoUrl /\ handle' = NoHandle
    /\ refcount' = 0 /\ freed' = TRUE /\ ownerRef' = FALSE
    /\ cfgHeld' = [v \in Workers |-> 0]
    /\ client' = [c \in Clients |-> [st |-> "gone", auth |-> FALSE, authenticated |-> FALSE]]
    /\ pc' = [v \in Workers |-> "idle"]
    /\ ev' = [v \in Workers |-> NoEvent]
    /\ tmp' = [v \in Workers |-> 0]
    /\ inflight' = [v \in Workers |-> NoHandle]
    /\ res' = [v \in Workers |-> CURLE_OK]
    /\ result' = [v \in Workers |-> NoResult]
    /\ hist' = [v \in Workers |-> NoHist]
    /\ nevents' = 0
    /\ mem' = NoMem
    /\ options' = {}
    /\ io' = io

\* ------------------------------------------------------ auth_addurl_client
\* auth_addurl_client without the test of lines 173-174
MutAddEntryNoNullCheck(w, c) ==
    /\ Running /\ reg = "ok" /\ nevents < MaxEvents
    /\ LowestFree(w) /\ LowestNew(c)
    /\ ownerRef /\ ~freed
    /\ refcount' = refcount + 1
    /\ ev' = [ev EXCEPT ![w] = [kind |-> "add", client |-> c]]
    /\ nevents' = nevents + 1
    /\ res' = [res EXCEPT ![w] = CURLE_OK]
    /\ ConfigGet(w)
    /\ Goto(w, "a_cfg")
    /\ Begin(w, refcount + 1, 1)
    /\ result' = [result EXCEPT ![w] = NoResult]
    /\ client' = [client EXCEPT ![c] = [st |-> "adding", auth |-> TRUE,
                                        authenticated |-> FALSE]]
    /\ UNCHANGED <<reg, url, handle, freed, ownerRef, tmp, inflight, crashed, mem, options, io>>

\* A connecting client has been given the mountpoint's authenticator, pinned
\* for it (auth.c), and auth_addurl_client is entered.  Lines 173-176: no add
\* URL: AUTH_OK at once; else the config snapshot is taken.
AddEntry(w, c) ==
    /\ Running /\ reg = "ok" /\ nevents < MaxEvents
    /\ LowestFree(w) /\ LowestNew(c)
    /\ ownerRef /\ ~freed
    /\ refcount' = refcount + 1
    /\ ev' = [ev EXCEPT ![w] = [kind |-> "add", client |-> c]]
    /\ nevents' = nevents + 1
    /\ res' = [res EXCEPT ![w] = CURLE_OK]
    /\ IF url.addurl = NULL
       THEN /\ Return(w, AUTH_OK)
            /\ Begin(w, refcount + 1, 0)
            /\ client' = [client EXCEPT ![c] = [st |-> "listening", auth |-> TRUE,
                                                authenticated |-> FALSE]]
            /\ UNCHANGED cfgHeld
       ELSE /\ ConfigGet(w)
            /\ Goto(w, "a_cfg")
            /\ Begin(w, refcount + 1, 1)
            /\ result' = [result EXCEPT ![w] = NoResult]
            /\ client' = [client EXCEPT ![c] = [st |-> "adding", auth |-> TRUE,
                                                authenticated |-> FALSE]]
    /\ UNCHANGED <<reg, url, handle, freed, ownerRef, tmp, inflight, crashed, mem, options, io>>

\* auth_addurl_client without config_release_config of line 178
MutAddSetUrlKeepsSnapshot(w) ==
    /\ Running /\ pc[w] = "a_cfg"
    /\ SetOptUrl(url.addurl)
    /\ Goto(w, "a_setpost")
    /\ UNCHANGED <<reg, url, refcount, freed, ownerRef, cfgHeld, client, ev,
                   tmp, inflight, res, result, hist, nevents, crashed, mem, options, io>>

\* lines 177-199: hostname read, snapshot released, body built, CURLOPT_URL
AddSetUrl(w) ==
    /\ Running /\ pc[w] = "a_cfg"
    /\ ConfigRelease(w)
    /\ SetOptUrl(url.addurl)
    /\ Goto(w, "a_setpost")
    /\ UNCHANGED <<reg, url, refcount, freed, ownerRef, client, ev,
                   tmp, inflight, res, result, hist, nevents, crashed, mem, options, io>>

\* line 200
AddSetPost(w) ==
    /\ Running /\ pc[w] = "a_setpost"
    /\ SetOptPostfields([action |-> "auth", client |-> ev[w].client])
    /\ Goto(w, "a_sethdr")
    /\ UNCHANGED <<reg, url, refcount, freed, ownerRef, cfgHeld, client, ev,
                   tmp, inflight, res, result, hist, nevents, crashed, mem, options, io>>

\* line 201
AddSetHdr(w) ==
    /\ Running /\ pc[w] = "a_sethdr"
    /\ SetOptWriteheader(AuthUser(w))
    /\ Goto(w, "a_perform")
    /\ UNCHANGED <<reg, url, refcount, freed, ownerRef, cfgHeld, client, ev,
                   tmp, inflight, res, result, hist, nevents, crashed, mem, options, io>>

\* line 203: curl_easy_perform is called
AddPerform(w) ==
    /\ Running /\ pc[w] = "a_perform"
    /\ PerformStart(w, "a_posting")
    /\ UNCHANGED <<reg, url, handle, refcount, freed, ownerRef, cfgHeld, client, ev,
                   tmp, res, result, nevents, crashed, mem, options, io>>

\* the add flow without the test of client->authenticated (line 211)
MutAddResultIgnoresFlag(w, r, pp) ==
    IF r # CURLE_OK THEN AUTH_FAILED
    ELSE IF pp < 0 THEN AUTH_FAILED ELSE AUTH_OK

\* the add flow without the test of res (lines 205-209)
MutAddResultIgnoresTransport(w, r, pp) ==
    IF client[ev[w].client].authenticated
    THEN IF pp < 0 THEN AUTH_FAILED ELSE AUTH_OK
    ELSE AUTH_FAILED

\* lines 205-220: the result of the add flow when curl_easy_perform returned
\* r; pp is what auth_postprocess_client returns when it is called
AddResult(w, r, pp) ==
    IF r # CURLE_OK THEN AUTH_FAILED
    ELSE IF client[ev[w].client].authenticated
         THEN IF pp < 0 THEN AUTH_FAILED ELSE AUTH_OK
         ELSE AUTH_FAILED

\* auth_addurl_client calling curl_easy_perform again when it has failed
MutAddCheckRetries(w, r, pp) ==
    /\ Running /\ pc[w] = "a_posting"
    /\ PerformReturn(w, r)
    /\ IF r # CURLE_OK
       THEN /\ Goto(w, "a_perform")
            /\ UNCHANGED <<result, hist, client>>
       ELSE /\ Return(w, AddResult(w, r, pp))
            /\ IF client[ev[w].client].authenticated
               THEN hist' = [hist EXCEPT ![w].pp = hist[w].pp + 1, ![w].ppres = pp]
               ELSE UNCHANGED hist
            /\ client' = [client EXCEPT ![ev[w].client].st =
                             IF AddResult(w, r, pp) = AUTH_OK THEN "listening" ELSE "rejected"]
    /\ UNCHANGED <<reg, url, handle, refcount, freed, ownerRef, cfgHeld, ev,
                   tmp, nevents, crashed, mem, options, io>>

\* auth_addurl_client doing the cleanup of the remove flow when it denies
MutAddCheckCleansUp(w, r, pp) ==
    /\ Running /\ pc[w] = "a_posting"
    /\ PerformReturn(w, r)
    /\ Return(w, AddResult(w, r, pp))
    /\ IF r = CURLE_OK /\ client[ev[w].client].authenticated
       THEN hist' = [hist EXCEPT ![w].pp = hist[w].pp + 1, ![w].ppres = pp]
       ELSE hist' = [hist EXCEPT ![w].unpins = hist[w].unpins + 1]
    /\ IF AddResult(w, r, pp) = AUTH_OK
       THEN /\ client' = [client EXCEPT ![ev[w].client].st = "listening"]
            /\ UNCHANGED <<refcount, freed, mem>>
       ELSE /\ client' = [client EXCEPT ![ev[w].client].st = "rejected",
                                        ![ev[w].client].auth = FALSE]
            /\ refcount' = auth_release_refcount
            /\ freed' = auth_release_clears
            /\ mem' = auth_release_mem
    /\ UNCHANGED <<reg, url, handle, ownerRef, cfgHeld, ev,
                   tmp, nevents, crashed, options, io>>

\* lines 203-220: curl_easy_perform returns r and the flow returns; the
\* caller admits the client or turns it away
AddCheck(w, r, pp) ==
    /\ Running /\ pc[w] = "a_posting"
    /\ PerformReturn(w, r)
    /\ Return(w, AddResult(w, r, pp))
    /\ IF r = CURLE_OK /\ client[ev[w].client].authenticated
       THEN hist' = [hist EXCEPT ![w].pp = hist[w].pp + 1, ![w].ppres = pp]
       ELSE UNCHANGED hist
    /\ client' = [client EXCEPT ![ev[w].client].st =
                     IF AddResult(w, r, pp) = AUTH_OK THEN "listening" ELSE "rejected"]
    /\ UNCHANGED <<reg, url, handle, refcount, freed, ownerRef, cfgHeld, ev,
                   tmp, nevents, crashed, mem, options, io>>

\* --------------------------------------------------- auth_removeurl_client
\* A disconnecting listener: auth_removeurl_client is entered.  Lines
\* 129-131: no remove URL: AUTH_OK at once; else the snapshot is taken.
RemoveEntry(w, c) ==
    /\ Running /\ reg = "ok" /\ nevents < MaxEvents
    /\ LowestFree(w)
    /\ client[c].st = "listening" /\ client[c].auth
    /\ ev' = [ev EXCEPT ![w] = [kind |-> "remove", client |-> c]]
    /\ nevents' = nevents + 1
    /\ res' = [res EXCEPT ![w] = CURLE_OK]
    /\ IF url.removeurl = NULL
       THEN /\ Return(w, AUTH_OK)
            /\ Begin(w, refcount, 0)
            /\ client' = [client EXCEPT ![c].st = "gone"]
            /\ UNCHANGED cfgHeld
       ELSE /\ ConfigGet(w)
            /\ Goto(w, "r_cfg")
            /\ Begin(w, refcount, 1)
            /\ result' = [result EXCEPT ![w] = NoResult]
            /\ client' = [client EXCEPT ![c].st = "removing"]
    /\ UNCHANGED <<reg, url, handle, refcount, freed, ownerRef, tmp, inflight, crashed, mem, options, io>>

\* lines 132-147: hostname read, snapshot released, body built, CURLOPT_URL
RemoveSetUrl(w) ==
    /\ Running /\ pc[w] = "r_cfg"
    /\ ConfigRelease(w)
    /\ SetOptUrl(url.removeurl)
    /\ Goto(w, "r_setpost")
    /\ UNCHANGED <<reg, url, refcount, freed, ownerRef, client, ev,
                   tmp, inflight, res, result, hist, nevents, crashed, mem, options, io>>

\* line 148
RemoveSetPost(w) ==
    /\ Running /\ pc[w] = "r_setpost"
    /\ SetOptPostfields([action |-> "remove", client |-> ev[w].client])
    /\ Goto(w, "r_sethdr")
    /\ UNCHANGED <<reg, url, refcount, freed, ownerRef, cfgHeld, client, ev,
                   tmp, inflight, res, result, hist, nevents, crashed, mem, options, io>>

\* line 149
RemoveSetHdr(w) ==
    /\ Running /\ pc[w] = "r_sethdr"
    /\ SetOptWriteheader(AuthUser(w))
    /\ Goto(w, "r_perform")
    /\ UNCHANGED <<reg, url, refcount, freed, ownerRef, cfgHeld, client, ev,
                   tmp, inflight, res, result, hist, nevents, crashed, mem, options, io>>

\* line 151: curl_easy_perform is called
RemovePerform(w) ==
    /\ Running /\ pc[w] = "r_perform"
    /\ PerformStart(w, "r_posting")
    /\ UNCHANGED <<reg, url, handle, refcount, freed, ownerRef, cfgHeld, client, ev,
                   tmp, res, result, nevents, crashed, mem, options, io>>

\* the remove flow without auth_release (line 155)
MutRemoveReleaseSkipped(w, r) ==
    /\ Running /\ pc[w] = "r_posting"
    /\ client[ev[w].client].auth
    /\ PerformReturn(w, r)
    /\ Goto(w, "r_clear")
    /\ UNCHANGED <<reg, url, handle, refcount, freed, ownerRef, cfgHeld, client, ev,
                   tmp, result, hist, nevents, crashed, mem, options, io>>

\* lines 151-155: curl_easy_perform returns r (a failure is logged only);
\* auth_release (client->auth)
RemoveRelease(w, r) ==
    /\ Running /\ pc[w] = "r_posting"
    /\ client[ev[w].client].auth
    /\ PerformReturn(w, r)
    /\ refcount' = auth_release_refcount
    /\ freed' = auth_release_clears
    /\ mem' = auth_release_mem
    /\ Goto(w, "r_clear")
    /\ hist' = [hist EXCEPT ![w].unpins = hist[w].unpins + 1]
    /\ UNCHANGED <<reg, url, handle, ownerRef, cfgHeld, client, ev,
                   tmp, result, nevents, crashed, options, io>>

\* the remove flow without client->auth = NULL (line 156)
MutRemoveClearKeepsAuth(w) ==
    /\ Running /\ pc[w] = "r_clear"
    /\ client' = [client EXCEPT ![ev[w].client].st = "gone"]
    /\ Return(w, AUTH_OK)
    /\ UNCHANGED <<reg, url, handle, refcount, freed, ownerRef, cfgHeld, ev,
                   tmp, inflight, res, hist, nevents, crashed, mem, options, io>>

\* lines 156-158: client->auth = NULL; return AUTH_OK
RemoveClear(w) ==
    /\ Running /\ pc[w] = "r_clear"
    /\ client' = [client EXCEPT ![ev[w].client].auth = FALSE,
                                ![ev[w].client].st = "gone"]
    /\ Return(w, AUTH_OK)
    /\ UNCHANGED <<reg, url, handle, refcount, freed, ownerRef, cfgHeld, ev,
                   tmp, inflight, res, hist, nevents, crashed, mem, options, io>>

\* ------------------------------------- url_stream_start and url_stream_end
\* url_stream_start with config_release_config moved before refcount++
MutStreamEntryReleasesEarly(w, kind) ==
    /\ Running /\ reg = "ok" /\ nevents < MaxEvents
    /\ LowestFree(w)
    /\ ownerRef
    /\ ev' = [ev EXCEPT ![w] = [kind |-> kind, client |-> NoClient]]
    /\ nevents' = nevents + 1
    /\ res' = [res EXCEPT ![w] = CURLE_OK]
    /\ Begin(w, refcount, 1)
    /\ IF StreamUrl(kind) = NULL
       THEN /\ Return(w, AUTH_OK)
            /\ UNCHANGED tmp
       ELSE /\ tmp' = [tmp EXCEPT ![w] = refcount]
            /\ Goto(w, "s_inc")
            /\ result' = [result EXCEPT ![w] = NoResult]
    /\ UNCHANGED <<reg, url, handle, refcount, freed, ownerRef, cfgHeld, client,
                   inflight, crashed, mem, options, io>>

\* url_stream_start without config_release_config of line 239
MutStreamEntryKeepsSnapshot(w, kind) ==
    /\ Running /\ reg = "ok" /\ nevents < MaxEvents
    /\ LowestFree(w)
    /\ ownerRef
    /\ ev' = [ev EXCEPT ![w] = [kind |-> kind, client |-> NoClient]]
    /\ nevents' = nevents + 1
    /\ res' = [res EXCEPT ![w] = CURLE_OK]
    /\ Begin(w, refcount, 1)
    /\ ConfigGet(w)
    /\ IF StreamUrl(kind) = NULL
       THEN /\ Return(w, AUTH_OK)
            /\ UNCHANGED tmp
       ELSE /\ tmp' = [tmp EXCEPT ![w] = refcount]
            /\ Goto(w, "s_inc")
            /\ result' = [result EXCEPT ![w] = NoResult]
    /\ UNCHANGED <<reg, url, handle, refcount, freed, ownerRef, client, inflight,
                   crashed, mem, options, io>>

\* A source starts or ends on the mountpoint while the mountpoint refers to
\* this authenticator.  Lines 230-246 (271-287): snapshot taken,
\* mountinfo->auth looked up; no URL: snapshot released, AUTH_OK; else
\* refcount++ begins: the value of refcount is read.
StreamEntry(w, kind) ==
    /\ Running /\ reg = "ok" /\ nevents < MaxEvents
    /\ LowestFree(w)
    /\ ownerRef
    /\ ev' = [ev EXCEPT ![w] = [kind |-> kind, client |-> NoClient]]
    /\ nevents' = nevents + 1
    /\ res' = [res EXCEPT ![w] = CURLE_OK]
    /\ Begin(w, refcount, 1)
    /\ IF StreamUrl(kind) = NULL
       THEN /\ Return(w, AUTH_OK)
            /\ UNCHANGED <<cfgHeld, tmp>>
       ELSE /\ ConfigGet(w)
            /\ tmp' = [tmp EXCEPT ![w] = refcount]
            /\ Goto(w, "s_inc")
            /\ result' = [result EXCEPT ![w] = NoResult]
    /\ UNCHANGED <<reg, url, handle, refcount, freed, ownerRef, client, inflight, crashed, mem, options, io>>

\* line 246 (287): refcount++ ends: the incremented value is written
StreamPin(w) ==
    /\ Running /\ pc[w] = "s_inc"
    /\ refcount' = tmp[w] + 1
    /\ tmp' = [tmp EXCEPT ![w] = 0]
    /\ Goto(w, "s_pinned")
    /\ hist' = [hist EXCEPT ![w].pins = hist[w].pins + 1]
    /\ UNCHANGED <<reg, url, handle, freed, ownerRef, cfgHeld, client, ev,
                   inflight, res, result, nevents, crashed, mem, options, io>>

\* lines 247-255 (288-296): snapshot released, body built, CURLOPT_URL
StreamSetUrl(w) ==
    /\ Running /\ pc[w] = "s_pinned"
    /\ ConfigRelease(w)
    /\ SetOptUrl(StreamUrl(ev[w].kind))
    /\ Goto(w, "s_setpost")
    /\ UNCHANGED <<reg, url, refcount, freed, ownerRef, client, ev,
                   tmp, inflight, res, result, hist, nevents, crashed, mem, options, io>>

\* line 256 (297)
StreamSetPost(w) ==
    /\ Running /\ pc[w] = "s_setpost"
    /\ SetOptPostfields([action |-> ev[w].kind, client |-> NoClient])
    /\ Goto(w, "s_sethdr")
    /\ UNCHANGED <<reg, url, refcount, freed, ownerRef, cfgHeld, client, ev,
                   tmp, inflight, res, result, hist, nevents, crashed, mem, options, io>>

\* line 257 (298)
StreamSetHdr(w) ==
    /\ Running /\ pc[w] = "s_sethdr"
    /\ SetOptWriteheader(AuthUser(w))
    /\ Goto(w, "s_perform")
    /\ UNCHANGED <<reg, url, refcount, freed, ownerRef, cfgHeld, client, ev,
                   tmp, inflight, res, result, hist, nevents, crashed, mem, options, io>>

\* line 259 (300): curl_easy_perform is called
StreamPerform(w) ==
    /\ Running /\ pc[w] = "s_perform"
    /\ PerformStart(w, "s_posting")
    /\ UNCHANGED <<reg, url, handle, refcount, freed, ownerRef, cfgHeld, client, ev,
                   tmp, res, result, nevents, crashed, mem, options, io>>

\* url_stream_start without auth_release (line 262)
MutStreamReleaseNoUnpin(w, r) ==
    /\ Running /\ pc[w] = "s_posting"
    /\ PerformReturn(w, r)
    /\ Return(w, AUTH_OK)
    /\ UNCHANGED <<reg, url, handle, refcount, freed, ownerRef, cfgHeld, client, ev,
                   tmp, hist, nevents, crashed, mem, options, io>>

\* url_stream_start returning AUTH_FAILED at once when curl_easy_perform fails
MutStreamReleaseFailFast(w, r) ==
    /\ Running /\ pc[w] = "s_posting"
    /\ PerformReturn(w, r)
    /\ IF r # CURLE_OK
       THEN /\ Return(w, AUTH_FAILED)
            /\ UNCHANGED <<refcount, freed, mem, hist>>
       ELSE /\ refcount' = auth_release_refcount
            /\ freed' = auth_release_clears
            /\ mem' = auth_release_mem
            /\ Return(w, AUTH_OK)
            /\ hist' = [hist EXCEPT ![w].unpins = hist[w].unpins + 1]
    /\ UNCHANGED <<reg, url, handle, ownerRef, cfgHeld, client, ev,
                   tmp, nevents, crashed, options, io>>

\* lines 259-264 (300-305): curl_easy_perform returns r (a failure is logged
\* only); auth_release (auth); return AUTH_OK
StreamRelease(w, r) ==
    /\ Running /\ pc[w] = "s_posting"
    /\ PerformReturn(w, r)
    /\ refcount' = auth_release_refcount
    /\ freed' = auth_release_clears
    /\ mem' = auth_release_mem
    /\ Return(w, AUTH_OK)
    /\ hist' = [hist EXCEPT ![w].unpins = hist[w].unpins + 1]
    /\ UNCHANGED <<reg, url, handle, ownerRef, cfgHeld, client, ev,
                   tmp, nevents, crashed, options, io>>

\* what of the program a call can be seen to have changed
Observed == <<reg, url, handle, refcount, freed, ownerRef, cfgHeld, client,
              inflight, mem>>

\* ------------------------------------------------- handle_returned_header
\* Header lines curl hands to the callback: the lines of ResponseLines, the
\* default verdict with a second digit, the default verdict ended by a bare
\* line feed, and a line that is no verdict.
HeaderLines ==
    ResponseLines \cup
    { <<"i","c","e","c","a","s","t","-","a","u","t","h","-","u","s","e","r",":"," ","1","0","\r","\n">>,
      <<"i","c","e","c","a","s","t","-","a","u","t","h","-","u","s","e","r",":"," ","1","\n">>,
      <<"D","a","t","e",":"," ","0","\r","\n">> }

\* the CURLOPT_WRITEHEADER pointers curl may hand to the callback: the
\* auth_user of a stream flow (no client) or of a client being authenticated
HeaderContexts ==
    {[ev |-> 1, client |-> NoClient]} \cup
    {[ev |-> 1, client |-> c] : c \in {d \in Clients : client[d].auth}}

\* line 98, 109: the callback returns size * nmemb, the length of the line
ReturnedBytes(line) == Len(line)

\* curl calls the CURLOPT_HEADERFUNCTION (line 370) with one header line
header_callback(line, ctx) ==
    /\ reg = "ok" /\ io.op = "none"
    /\ ctx \in HeaderContexts
    /\ client' = handle_returned_header(line, ctx)
    /\ io' = [op |-> "header", in |-> <<line, ctx>>, before |-> client,
              out |-> ReturnedBytes(line)]
    /\ UNCHANGED <<reg, url, handle, refcount, freed, ownerRef, cfgHeld, pc,
                   ev, tmp, inflight, res, result, hist, nevents, crashed, mem, options>>

\* user names and passwords: of listeners, and as the user management hooks
\* are called with
UserNames == { <<"f","r","e","d">>, <<"a","&","b">> }
Passwords == { <<"h","u","n","t","e","r","2">>, <<>> }

\* ------------------------------------- the body of the remove flow's POST
\* sizeof (post), line 127
PostSize == 1024

Digits == <<"0","1","2","3","4","5","6","7","8","9">>

\* printf %lu
RECURSIVE ToDecimal(_)
ToDecimal(n) ==
    IF n < 10 THEN <<Digits[n + 1]>>
    ELSE ToDecimal(n \div 10) \o <<Digits[(n % 10) + 1]>>

\* util_url_escape (util.c): a byte outside the unreserved set becomes %XX
EscapeChar(ch) ==
    CASE ch = "&" -> <<"%","2","6">>
      [] ch = "=" -> <<"%","3","D">>
      [] ch = "/" -> <<"%","2","F">>
      [] ch = "%" -> <<"%","2","5">>
      [] OTHER -> <<ch>>

RECURSIVE util_url_escape(_)
util_url_escape(str) ==
    IF Len(str) = 0 THEN <<>>
    ELSE IF Len(str) = 1 THEN EscapeChar(str[1])
    ELSE LET h == Len(str) \div 2
         IN util_url_escape(SubSeq(str, 1, h)) \o util_url_escape(SubSeq(str, h + 1, Len(str)))

\* snprintf (post, size, ...): the text, cut to size - 1 bytes
Snprintf(size, text) ==
    IF Len(text) <= size - 1 THEN text ELSE SubSeq(text, 1, size - 1)

\* (long unsigned) of a time_t
ToUnsignedLong(t) == t % (2 ^ LongBits)

\* line 124: time(NULL) - client->con->con_time, as line 142 prints it
Duration(now, con_time) == ToUnsignedLong(now - con_time)

\* lines 132-142: the body auth_removeurl_client builds
RemovePost(server, id, mount, username, password, duration) ==
    Snprintf(PostSize,
        <<"a","c","t","i","o","n","=","r","e","m","o","v","e","&","s","e","r","v","e","r","=">> \o util_url_escape(server)
        \o <<"c","l","i","e","n","t","=">> \o ToDecimal(id)
        \o <<"&","m","o","u","n","t","=">> \o util_url_escape(mount)
        \o <<"&","u","s","e","r","=">> \o util_url_escape(username)
        \o <<"&","p","a","s","s","=">> \o util_url_escape(password)
        \o <<"&","d","u","r","a","t","i","o","n","=">> \o ToDecimal(duration))

\* what the remove flow is given: config->hostname, client->con->id,
\* auth_user->mount, client->username, client->password
HostNames == { <<"h",".","x">> }
ConnectionIds == {42}
Mounts == { <<"/","l","i","v","e">> }
LongName == [i \in 1..PostSize |-> "a"]
ListenerNames == UserNames \cup {LongName}
Times == 0..MaxTime

\* lines 124-142 of auth_removeurl_client for one disconnecting listener
remove_post(server, id, mount, username, password, now, con_time) ==
    /\ reg = "ok" /\ io.op = "none"
    /\ url.removeurl # NULL
    /\ io' = [op |-> "remove_post",
              in |-> [server |-> server, id |-> id, mount |-> mount, username |-> username,
                      password |-> password, now |-> now, con_time |-> con_time],
              before |-> Observed,
              out |-> RemovePost(server, id, mount, username, password,
                                 Duration(now, con_time))]
    /\ UNCHANGED <<reg, url, handle, refcount, freed, ownerRef, cfgHeld, client, pc,
                   ev, tmp, inflight, res, result, hist, nevents, crashed, mem, options>>

\* --------------------------------------------- adduser, deleteuser, listuser
\* the node auth_url_listuser is called with
XmlNodes == {"NULL", "srcnode"}

\* auth_url_adduser returning AUTH_OK
MutAdduserSupported(username, password) == AUTH_OK

\* lines 309-312
auth_url_adduser(username, password) == AUTH_FAILED

\* lines 314-317
auth_url_deleteuser(username) == AUTH_FAILED

\* lines 319-322
auth_url_listuser(srcnode) == AUTH_FAILED

\* authenticator->adduser (auth, username, password), installed at line 330
adduser(username, password) ==
    /\ reg = "ok" /\ io.op = "none"
    /\ io' = [op |-> "adduser", in |-> <<username, password>>, before |-> Observed,
              out |-> auth_url_adduser(username, password)]
    /\ UNCHANGED <<reg, url, handle, refcount, freed, ownerRef, cfgHeld, client, pc,
                   ev, tmp, inflight, res, result, hist, nevents, crashed, mem, options>>

\* authenticator->deleteuser (auth, username), installed at line 331
deleteuser(username) ==
    /\ reg = "ok" /\ io.op = "none"
    /\ io' = [op |-> "deleteuser", in |-> <<username>>, before |-> Observed,
              out |-> auth_url_deleteuser(username)]
    /\ UNCHANGED <<reg, url, handle, refcount, freed, ownerRef, cfgHeld, client, pc,
                   ev, tmp, inflight, res, result, hist, nevents, crashed, mem, options>>

\* authenticator->listuser (auth, srcnode), installed at line 332
listuser(srcnode) ==
    /\ reg = "ok" /\ io.op = "none"
    /\ io' = [op |-> "listuser", in |-> <<srcnode>>, before |-> Observed,
              out |-> auth_url_listuser(srcnode)]
    /\ UNCHANGED <<reg, url, handle, refcount, freed, ownerRef, cfgHeld, client, pc,
                   ev, tmp, inflight, res, result, hist, nevents, crashed, mem, options>>

\* ----------------------------------------------------------- specification
Next ==
    \/ \E opts \in OptionLists, ok \in BOOLEAN : auth_get_url_auth(opts, ok)
    \/ ConfigChange
    \/ \E w \in Workers : Collect(w)
    \/ \E w \in Workers, line \in ResponseLines :
          \E ctx \in {inflight[w].hdr, handle.hdr} : HeaderLine(w, line, ctx)
    \/ \E w \in Workers : Crash(w)
    \/ \E w \in Workers, c \in Clients : AddEntry(w, c)
    \/ \E w \in Workers : AddSetUrl(w)
    \/ \E w \in Workers : AddSetPost(w)
    \/ \E w \in Workers : AddSetHdr(w)
    \/ \E w \in Workers : AddPerform(w)
    \/ \E w \in Workers, r \in PerformResults, pp \in PostprocessResults : AddCheck(w, r, pp)
    \/ \E w \in Workers, c \in Clients : RemoveEntry(w, c)
    \/ \E w \in Workers : RemoveSetUrl(w)
    \/ \E w \in Workers : RemoveSetPost(w)
    \/ \E w \in Workers : RemoveSetHdr(w)
    \/ \E w \in Workers : RemovePerform(w)
    \/ \E w \in Workers, r \in PerformResults : RemoveRelease(w, r)
    \/ \E w \in Workers : RemoveClear(w)
    \/ \E w \in Workers, kind \in {"start", "end"} : StreamEntry(w, kind)
    \/ \E w \in Workers : StreamPin(w)
    \/ \E w \in Workers : StreamSetUrl(w)
    \/ \E w \in Workers : StreamSetPost(w)
    \/ \E w \in Workers : StreamSetHdr(w)
    \/ \E w \in Workers : StreamPerform(w)
    \/ \E w \in Workers, r \in PerformResults : StreamRelease(w, r)

Spec == Init /\ [][Next]_vars

\* The functions that are checked call by call: the authenticator is
\* registered, clients are connecting (some already admitted by the remote
\* server), and one call is made with arguments drawn from the sets above.
ConnectingClient ==
    { [st |-> "new", auth |-> FALSE, authenticated |-> FALSE],
      [st |-> "adding", auth |-> TRUE, authenticated |-> FALSE],
      [st |-> "adding", auth |-> TRUE, authenticated |-> TRUE] }

InitCalls ==
    /\ reg = "none"
    /\ url = NoUrl
    /\ handle = NoHandle
    /\ client \in [Clients -> ConnectingClient]
    /\ refcount = 1 + Cardinality({c \in Clients : client[c].auth})
    /\ freed = FALSE
    /\ ownerRef = TRUE
    /\ cfgHeld = [w \in Workers |-> 0]
    /\ pc = [w \in Workers |-> "idle"]
    /\ ev = [w \in Workers |-> NoEvent]
    /\ tmp = [w \in Workers |-> 0]
    /\ inflight = [w \in Workers |-> NoHandle]
    /\ res = [w \in Workers |-> CURLE_OK]
    /\ result = [w \in Workers |-> NoResult]
    /\ hist = [w \in Workers |-> NoHist]
    /\ nevents = 0
    /\ crashed = FALSE
    /\ mem = NoMem
    /\ options = {}
    /\ io = NoIo

NextCalls ==
    \/ \E opts \in OptionLists, ok \in BOOLEAN : auth_get_url_auth(opts, ok)
    \/ \E u \in UserNames, p \in Passwords : adduser(u, p)
    \/ \E u \in UserNames : deleteuser(u)
    \/ \E n \in XmlNodes : listuser(n)
    \/ \E server \in HostNames, id \in ConnectionIds, mount \in Mounts,
          username \in ListenerNames, password \in Passwords :
          \E now \in Times, con_time \in Times :
             remove_post(server, id, mount, username, password, now, con_time)
    \/ \E line \in HeaderLines :
          \E ctx \in HeaderContexts : header_callback(line, ctx)

SpecCalls == InitCalls /\ [][NextCalls]_vars

\* ------------------------------------------------------------------ claims
IsStream(w) == ev[w].kind \in {"start", "end"}
IsAdd(w) == ev[w].kind = "add"
IsRemove(w) == ev[w].kind = "remove"

\* C1: the authenticator is never deallocated (auth_url_clear never runs)
\* while an event that uses it is between the start and the return of its
\* blocking POST.
C1_NoClearDuringPost ==
    \A w \in Workers : Posting(w) => ~freed

\* C2: when a stream-start or stream-end flow that ran on its own returns,
\* the refcount equals the refcount when the flow began (no URL, POST
\* succeeded, POST failed).
C2_StreamRefcountBalanced ==
    \A w \in Workers :
        Done(w) /\ IsStream(w) /\ hist[w].alone => refcount = hist[w].rc0

C2_Witness ==
    \E w \in Workers :
        /\ Done(w) /\ IsStream(w) /\ hist[w].alone
        /\ hist[w].posts = 1 /\ res[w] = CURLE_FAIL
        /\ hist[w].pins = 1 /\ hist[w].unpins = 1

\* C3 as stated: add URL configured, transport call succeeded: a matching
\* header line in the response gives AUTH_OK and the flag true; no matching
\* line gives AUTH_FAILED and the flag false.
C3_Original ==
    \A w \in Workers :
        Done(w) /\ IsAdd(w) /\ url.addurl # NULL /\ res[w] = CURLE_OK =>
            /\ hist[w].match =>
                  result[w] = AUTH_OK /\ client[ev[w].client].authenticated
            /\ ~hist[w].match =>
                  result[w] = AUTH_FAILED /\ ~client[ev[w].client].authenticated

\* C3 amended: for an add flow that ran on its own, add URL configured,
\* transport call succeeded: a matching header line and a non-negative
\* post-processing result give AUTH_OK and the flag true; no matching line
\* gives AUTH_FAILED and the flag false.
C3_AddVerdict ==
    \A w \in Workers :
        Done(w) /\ IsAdd(w) /\ url.addurl # NULL /\ res[w] = CURLE_OK /\ hist[w].alone =>
            /\ hist[w].match /\ hist[w].ppres >= 0 =>
                  result[w] = AUTH_OK /\ client[ev[w].client].authenticated
            /\ ~hist[w].match =>
                  result[w] = AUTH_FAILED /\ ~client[ev[w].client].authenticated

C3_Witness ==
    \E w \in Workers :
        /\ Done(w) /\ IsAdd(w) /\ url.addurl # NULL /\ res[w] = CURLE_OK /\ hist[w].alone
        /\ hist[w].match /\ hist[w].pp = 1 /\ hist[w].ppres >= 0
        /\ result[w] = AUTH_OK /\ client[ev[w].client].authenticated

\* C4: with an add URL configured the add flow returns AUTH_OK only if the
\* transport call succeeded, the authenticated flag is set and post-processing
\* returned a non-negative result; a transport failure gives AUTH_FAILED even
\* after a matching header line, and so does a negative post-processing result.
C4_AddOkOnlyIf ==
    \A w \in Workers :
        Done(w) /\ IsAdd(w) /\ url.addurl # NULL =>
            /\ result[w] = AUTH_OK =>
                  /\ res[w] = CURLE_OK
                  /\ client[ev[w].client].authenticated
                  /\ hist[w].pp = 1 /\ hist[w].ppres >= 0
            /\ res[w] # CURLE_OK => result[w] = AUTH_FAILED
            /\ hist[w].pp = 1 /\ hist[w].ppres < 0 => result[w] = AUTH_FAILED

C4_Witness ==
    \E w \in Workers :
        /\ Done(w) /\ IsAdd(w) /\ url.addurl # NULL
        /\ res[w] # CURLE_OK /\ hist[w].match /\ client[ev[w].client].authenticated
        /\ result[w] = AUTH_FAILED

\* C5: with no add URL the add flow returns AUTH_OK and has issued no
\* transport call, acquired no config snapshot and called no post-processing.
C5_NoAddUrl ==
    \A w \in Workers :
        Done(w) /\ IsAdd(w) /\ url.addurl = NULL =>
            /\ result[w] = AUTH_OK
            /\ hist[w].posts = 0 /\ hist[w].acq = 0 /\ hist[w].pp = 0
            /\ cfgHeld[w] = 0

C5_Witness ==
    \E w \in Workers :
        Done(w) /\ IsAdd(w) /\ url.addurl = NULL /\ result[w] = AUTH_OK

\* C6 as stated: whenever the remove flow returns, client->auth is null.
C6_Original ==
    \A w \in Workers :
        Done(w) /\ IsRemove(w) => ~client[ev[w].client].auth

\* C6 amended: whenever the remove flow returns with a remove URL configured,
\* client->auth is null, whether the transport call succeeded or failed.
C6_RemoveClearsAuth ==
    \A w \in Workers :
        Done(w) /\ IsRemove(w) /\ url.removeurl # NULL => ~client[ev[w].client].auth

C6_Witness ==
    \E w \in Workers :
        /\ Done(w) /\ IsRemove(w) /\ url.removeurl # NULL
        /\ res[w] = CURLE_FAIL /\ ~client[ev[w].client].auth

\* C7 as stated: the remove flow releases the client's pinned reference
\* exactly once, only after the POST has returned, and when it returns the
\* refcount is one less than when it began.
C7_Original ==
    \A w \in Workers :
        IsRemove(w) =>
            /\ hist[w].unpins > 0 => hist[w].posts = 1 /\ ~Posting(w)
            /\ Done(w) => hist[w].unpins = 1 /\ refcount = hist[w].rc0 - 1

\* C7 amended: with a remove URL configured, the remove flow releases the
\* client's pinned reference exactly once, only after the POST has returned;
\* when a flow that ran on its own returns, the refcount is one less than when
\* it began, for a successful and for a failed transport call alike.
C7_RemoveReleasesOnce ==
    \A w \in Workers :
        IsRemove(w) /\ url.removeurl # NULL =>
            /\ hist[w].unpins > 0 => hist[w].posts = 1 /\ ~Posting(w)
            /\ Done(w) => hist[w].unpins = 1
            /\ Done(w) /\ hist[w].alone => refcount = hist[w].rc0 - 1

C7_Witness ==
    \E w \in Workers :
        /\ Done(w) /\ IsRemove(w) /\ url.removeurl # NULL /\ hist[w].alone
        /\ res[w] = CURLE_FAIL /\ hist[w].unpins = 1 /\ refcount = hist[w].rc0 - 1

\* C8: the remove, stream-start and stream-end flows return AUTH_OK for every
\* transport outcome, and a transport failure does not keep the flow from its
\* cleanup: the reference is released, the remove flow clears client->auth.
C8_FailureAbsorbed ==
    \A w \in Workers :
        Done(w) /\ (IsRemove(w) \/ IsStream(w)) =>
            /\ result[w] = AUTH_OK
            /\ hist[w].posts = 1 =>
                  /\ hist[w].unpins = 1
                  /\ cfgHeld[w] = 0
                  /\ IsRemove(w) => ~client[ev[w].client].auth

C8_Witness ==
    \E w \in Workers :
        /\ Done(w) /\ IsStream(w) /\ hist[w].posts = 1 /\ res[w] = CURLE_FAIL
        /\ result[w] = AUTH_OK /\ hist[w].unpins = 1

\* C9: no worker holds the config snapshot while it executes the blocking
\* POST: the snapshot the flow acquired has been released before the
\* transport call starts.
C9_NoSnapshotDuringPost ==
    \A w \in Workers :
        Posting(w) \/ hist[w].posts > 0 => hist[w].acq = 1 /\ cfgHeld[w] = 0

C9_Witness ==
    \E w \in Workers, v \in Workers :
        /\ Posting(w) /\ IsAdd(w) /\ hist[w].acq = 1 /\ cfgHeld[w] = 0
        /\ v # w /\ cfgHeld[v] = 1

\* C10: in a stream flow with its URL configured the refcount is incremented
\* while the snapshot is held, strictly before the release: the snapshot is
\* never found released with the increment still to come, and it has been
\* released when the POST starts.
C10_PinBeforeRelease ==
    \A w \in Workers :
        IsStream(w) /\ StreamUrl(ev[w].kind) # NULL =>
            /\ cfgHeld[w] = 0 => hist[w].pins = 1
            /\ hist[w].posts > 0 => cfgHeld[w] = 0 /\ hist[w].pins = 1

C10_Witness ==
    \E w \in Workers :
        /\ IsStream(w) /\ StreamUrl(ev[w].kind) # NULL
        /\ hist[w].pins = 1 /\ cfgHeld[w] = 1 /\ hist[w].posts = 0

IsUserManagement == io.op \in {"adduser", "deleteuser", "listuser"}

\* C11: adduser, deleteuser and listuser return the same fixed result
\* (AUTH_FAILED, "not supported") for every argument and in every state of
\* the authenticator, issue no transport call and change nothing of the
\* authenticator, the clients or the config snapshots.
C11_Unsupported ==
    IsUserManagement =>
        /\ io.out = AUTH_FAILED
        /\ Observed = io.before
        /\ \A w \in Workers : inflight[w] = NoHandle /\ hist[w].posts = 0

C11_Witness ==
    /\ io.op = "listuser" /\ io.out = AUTH_FAILED
    /\ url.addurl # NULL /\ refcount > 1

\* case-insensitive prefix test, written out
PrefixNoCase(p, line) ==
    /\ Len(line) >= Len(p)
    /\ \A i \in 1..Len(p) : ToLower(line[i]) = ToLower(p[i])

\* the flags after a callback that sets the flag of the correlated client
\* exactly on a line that begins as expected does
FlagsAfter(expected) ==
    \A c \in Clients :
        client[c].authenticated =
            \/ io.before[c].authenticated
            \/ io.in[2].client = c /\ PrefixNoCase(expected, io.in[1])

\* C12 as stated: the callback sets the correlated client's flag exactly when
\* the line begins, in any letter case, with the expected header: the default
\* "icecast-auth-user: 1" with no header option, the option's value otherwise;
\* other lines change nothing and the flag is never set back to false.
C12_Original ==
    io.op = "header" =>
        FlagsAfter(IF "header" \in options THEN CustomHeader
                   ELSE <<"i","c","e","c","a","s","t","-","a","u","t","h","-","u","s","e","r",":"," ","1">>)

\* C12 amended: the default expected header is "icecast-auth-user: 1" followed
\* by carriage return and line feed.
C12_HeaderVerdict ==
    io.op = "header" =>
        FlagsAfter(IF "header" \in options THEN CustomHeader
                   ELSE <<"i","c","e","c","a","s","t","-","a","u","t","h","-","u","s","e","r",":"," ","1","\r","\n">>)

C12_Witness ==
    /\ io.op = "header" /\ "header" \notin options
    /\ io.in[1] # DefaultHeader
    /\ \E c \in Clients : ~io.before[c].authenticated /\ client[c].authenticated

\* the fields of a form body: the pieces between '&', name before the first '='
Positions(str, ch) == {i \in 1..Len(str) : str[i] = ch}
FirstOf(S) == CHOOSE i \in S : \A j \in S : i <= j
RECURSIVE Fields(_)
Fields(str) ==
    IF Positions(str, "&") = {} THEN <<str>>
    ELSE LET i == FirstOf(Positions(str, "&"))
         IN <<SubSeq(str, 1, i - 1)>> \o Fields(SubSeq(str, i + 1, Len(str)))
FieldName(f) ==
    IF Positions(f, "=") = {} THEN f
    ELSE SubSeq(f, 1, FirstOf(Positions(f, "=")) - 1)
FieldValue(f) ==
    IF Positions(f, "=") = {} THEN <<>>
    ELSE SubSeq(f, FirstOf(Positions(f, "=")) + 1, Len(f))
RemoveFieldNames ==
    << <<"a","c","t","i","o","n">>, <<"s","e","r","v","e","r">>, <<"c","l","i","e","n","t">>, <<"m","o","u","n","t">>, <<"u","s","e","r">>, <<"p","a","s","s">>, <<"d","u","r","a","t","i","o","n">> >>

\* C13: the body the remove flow builds is the fields action, server, client,
\* mount, user, pass, duration in this order, every two neighbours separated
\* by '&'; action is remove and the server field holds the escaped hostname.
C13_RemoveBodyFields ==
    io.op = "remove_post" =>
        LET f == Fields(io.out) IN
        /\ Len(f) = Len(RemoveFieldNames)
        /\ \A i \in 1..Len(RemoveFieldNames) : FieldName(f[i]) = RemoveFieldNames[i]
        /\ FieldValue(f[1]) = <<"r","e","m","o","v","e">>
        /\ FieldValue(f[2]) = util_url_escape(io.in.server)
        /\ FieldValue(f[3]) = ToDecimal(io.in.id)

\* C14: the duration field of the remove body is now minus the connection
\* start time when that is not negative, and 0 when the connection start time
\* is later than now.
C14_DurationClamped ==
    io.op = "remove_post" =>
        LET f == Fields(io.out)
            d == IF io.in.now >= io.in.con_time THEN io.in.now - io.in.con_time ELSE 0
        IN /\ FieldName(f[Len(f)]) = RemoveFieldNames[7]
           /\ FieldValue(f[Len(f)]) = ToDecimal(d)

\* the URL and the action of the event class of the flow worker w runs
FlowUrl(w) ==
    CASE IsAdd(w) -> url.addurl
      [] IsRemove(w) -> url.removeurl
      [] OTHER -> StreamUrl(ev[w].kind)
FlowAction(w) == IF IsAdd(w) THEN "auth" ELSE ev[w].kind

\* C15: every event flow ends after one pass: it has issued one POST when the
\* URL of its event class is configured and none when it is not, and it never
\* issues a second POST, whatever the first returned.
C15_OnePostPerFlow ==
    \A w \in Workers :
        /\ hist[w].posts <= 1
        /\ Done(w) => /\ result[w] \in {AUTH_OK, AUTH_FAILED}
                      /\ hist[w].posts = IF FlowUrl(w) # NULL THEN 1 ELSE 0

C15_Witness ==
    \E w \in Workers :
        /\ Done(w) /\ IsAdd(w) /\ FlowUrl(w) # NULL
        /\ res[w] = CURLE_FAIL /\ hist[w].posts = 1

\* C16: when the transport handle cannot be created, registration has
\* installed no state on the authenticator, has freed every block it
\* allocated, and the caller's authenticator is not freed memory.
C16_FailedRegistrationClean ==
    reg = "failed" =>
        /\ ~mem.state
        /\ mem.blocks = {}
        /\ mem.authenticator = "live"

\* C17: with several events of one authenticator in flight, the POST of an
\* event goes out with the event's own URL, body and header context, and a
\* client's authenticated flag is set only by a matching header line in the
\* response to its own request.
C17_OwnRequest ==
    \A w \in Workers :
        /\ Posting(w) =>
              /\ inflight[w].url = FlowUrl(w)
              /\ inflight[w].post = [action |-> FlowAction(w), client |-> ev[w].client]
              /\ inflight[w].hdr = AuthUser(w)
        /\ IsAdd(w) /\ FlowUrl(w) # NULL /\ client[ev[w].client].authenticated =>
              hist[w].match

\* C18: when only stream-start and stream-end flows have run and all of them
\* have returned, the refcount is what it was before the first one began: the
\* one reference of the mountpoint.
C18_StreamPinsBalanced ==
    /\ reg = "ok" /\ ~crashed /\ ownerRef
    /\ \A c \in Clients : client[c].st = "new"
    /\ \A w \in Workers : Free(w) \/ Done(w)
    => refcount = 1

\* C19: a flow holds at most the one snapshot it acquired, and when it has
\* returned it holds none, also on the early return of a stream flow with no
\* URL configured.
C19_SnapshotsReleased ==
    \A w \in Workers :
        /\ cfgHeld[w] \in {0, 1} /\ cfgHeld[w] <= hist[w].acq /\ hist[w].acq <= 1
        /\ Done(w) => cfgHeld[w] = 0

C19_Witness ==
    \E w \in Workers :
        /\ Done(w) /\ IsStream(w) /\ FlowUrl(w) = NULL
        /\ hist[w].acq = 1 /\ cfgHeld[w] = 0

\* C20: the add flow never releases the authenticator and never clears
\* client->auth; when an add flow that ran on its own returns, with whatever
\* outcome, the refcount is what it was when the flow began.
C20_AddLeavesPin ==
    \A w \in Workers :
        IsAdd(w) =>
            /\ hist[w].unpins = 0 /\ hist[w].pins = 0
            /\ client[ev[w].client].auth
            /\ Done(w) /\ hist[w].alone => refcount = hist[w].rc0

C20_Witness ==
    \E w \in Workers :
        /\ Done(w) /\ IsAdd(w) /\ hist[w].alone
        /\ hist[w].pp = 1 /\ hist[w].ppres < 0 /\ result[w] = AUTH_FAILED
        /\ refcount = hist[w].rc0 /\ client[ev[w].client].auth

====
